---- MODULE Spec2Model ----
(***************************************************************************)
(* Model of src/server.js: the Express payment backend.  Each in-flight    *)
(* HTTP request occupies one slot r \in Req; a handler runs from one       *)
(* `await` to the next as one action, and the payment processor (Stripe)   *)
(* settles each awaited call with a result or a failure.                   *)
(***************************************************************************)
EXTENDS Integers, Sequences, FiniteSets, TLC

\* ------------------------------------------------------------------ bounds
NumReq == 2        \* request slots that may be open at the same time
MaxSubs == 2       \* longest subscription list the processor returns

Req == 1..NumReq

\* --------------------------------------------------------------- JS values
\* A JSON/JS value is a tagged record; a number is the rational n/d.
Undef == [t |-> "undefined"]
JNull == [t |-> "null"]
Str(s) == [t |-> "string", s |-> s]
Num(n, d) == [t |-> "number", n |-> n, d |-> d]

\* JS truthiness, as used by `!x`, `x || y` and `x ? a : b`.
Truthy(v) ==
    CASE v.t = "undefined" -> FALSE
      [] v.t = "null" -> FALSE
      [] v.t = "string" -> v.s # ""
      [] v.t = "number" -> v.n # 0
      [] OTHER -> TRUE

\* String.prototype.toLowerCase on the currency codes of the model.
toLowerCase(s) ==
    CASE s = "USD" -> "usd"
      [] s = "Eur" -> "eur"
      [] OTHER -> s

\* `a || b`
Or(a, b) == IF Truthy(a) THEN a ELSE b

\* ------------------------------------------------------------------ state
VARIABLES
    endpointSecret,  \* process.env.STRIPE_WEBHOOK_SECRET
    pc,              \* per request: where its handler stands
    req,             \* per request: the HTTP request
    customer,        \* per request: the handler's local `customer`
    calls,           \* per request: processor calls issued, in order
    results,         \* per request: processor results delivered, in order
    sent,            \* per request: responses written, in order
    log              \* per request: webhook dispatch arms that ran

vars == <<endpointSecret, pc, req, customer, calls, results, sent, log>>

NoReq == [route |-> "none"]

\* ------------------------------------------------------- response shaping
Json(status, body) == [status |-> status, kind |-> "json", body |-> body]
Text(status, text) == [status |-> status, kind |-> "text", body |-> text]

\* ------------------------------------------- POST /create-payment-intent
\* Mutant: the presence check forgets `amount`.
MissingRequiredFieldsButAmount(body) ==
    \/ ~Truthy(body.planType)
    \/ ~Truthy(body.currency)

\* `!planType || !currency || !amount`
MissingRequiredFields(body) ==
    \/ ~Truthy(body.planType)
    \/ ~Truthy(body.currency)
    \/ ~Truthy(body.amount)

ValidationResponse ==
    Json(400, [error |-> "Missing required fields: planType, currency, amount"])

CustomersCreateArgs(body) ==
    [email |-> body.customerEmail,
     name |-> Or(body.customerName, Str("French Learning Student")),
     metadata |-> [planType |-> body.planType, source |-> "french-learning-app"]]

\* `customer ? customer.id : undefined` / `customer ? customer.id : null`
CustomerIdOr(cust, absent) == IF Truthy(cust) THEN Str(cust.id) ELSE absent

\* Evaluating the argument object throws a TypeError when `currency` has no
\* toLowerCase method, i.e. when it is not a string.
IntentArgsThrow(body) == body.currency.t # "string"

PaymentIntentsCreateArgs(body, cust) ==
    [amount |-> body.amount,
     currency |-> Str(toLowerCase(body.currency.s)),
     customer |-> CustomerIdOr(cust, Undef),
     description |-> <<"French Learning App - ", body.planType, " subscription">>,
     metadata |-> [planType |-> body.planType,
                   customerEmail |-> Or(body.customerEmail, Str("guest")),
                   source |-> "french-learning-app"],
     confirm |-> FALSE,
     automatic_payment_methods |-> [enabled |-> TRUE]]

IntentSuccessResponse(paymentIntent, cust) ==
    Json(200, [clientSecret |-> paymentIntent.client_secret,
               paymentIntentId |-> paymentIntent.id,
               customerId |-> CustomerIdOr(cust, JNull)])

IntentFailureResponse(message) ==
    Json(500, [error |-> "Payment intent creation failed", message |-> message])

\* Mutant: `customer` is declared at module level and so is shared by every
\* request in flight.
SharedCustomer(r, cust) ==
    IF \E q \in DOMAIN cust : Truthy(cust[q])
    THEN cust[CHOOSE q \in DOMAIN cust : Truthy(cust[q])]
    ELSE cust[r]

\* The handler's `customer` is a local of the request being handled.
LocalCustomer(r, cust) == cust[r]

\* What the processor may answer to customers.create / paymentIntents.create.
CustomerResults ==
    {[ok |-> TRUE, value |-> [t |-> "customer", id |-> "cus_1"]],
     [ok |-> FALSE, message |-> "customer rejected"]}

IntentResults ==
    {[ok |-> TRUE, value |-> [id |-> "pi_1", client_secret |-> "pi_1_secret"]],
     [ok |-> FALSE, message |-> "intent rejected"]}

Call(api, args) == [api |-> api, args |-> args]

\* Lines 69-86: build the arguments and issue paymentIntents.create, or fall
\* into the outer catch when building them throws.
IntentStage(r, body, cust) ==
    IF IntentArgsThrow(body)
    THEN /\ sent' = [sent EXCEPT ![r] =
                Append(@, IntentFailureResponse("currency.toLowerCase is not a function"))]
         /\ pc' = [pc EXCEPT ![r] = "done"]
         /\ calls' = calls
    ELSE /\ calls' = [calls EXCEPT ![r] =
                Append(@, Call("paymentIntents.create", PaymentIntentsCreateArgs(body, cust)))]
         /\ pc' = [pc EXCEPT ![r] = "await paymentIntents.create"]
         /\ sent' = sent

\* Lines 39-67: the handler up to its first await (or its response).
PostCreatePaymentIntent(r, body) ==
    /\ pc[r] = "idle"
    /\ req' = [req EXCEPT ![r] = [route |-> "POST /create-payment-intent", body |-> body]]
    /\ UNCHANGED <<endpointSecret, customer, results, log>>
    /\ IF MissingRequiredFields(body)
       THEN /\ sent' = [sent EXCEPT ![r] = Append(@, ValidationResponse)]
            /\ pc' = [pc EXCEPT ![r] = "done"]
            /\ calls' = calls
       ELSE IF Truthy(body.customerEmail)
       THEN /\ calls' = [calls EXCEPT ![r] =
                Append(@, Call("customers.create", CustomersCreateArgs(body)))]
            /\ pc' = [pc EXCEPT ![r] = "await customers.create"]
            /\ sent' = sent
       ELSE IntentStage(r, body, LocalCustomer(r, customer))

\* Lines 56-66: customers.create settles; a failure is caught and logged.
CustomersCreateSettles(r, result) ==
    /\ pc[r] = "await customers.create"
    /\ results' = [results EXCEPT ![r] = Append(@, result)]
    /\ customer' = [customer EXCEPT ![r] = IF result.ok THEN result.value ELSE @]
    /\ IntentStage(r, req[r].body, LocalCustomer(r, customer'))
    /\ UNCHANGED <<endpointSecret, req, log>>

\* Mutant: a failed paymentIntents.create is retried instead of answered.
PaymentIntentsCreateRetries(r, result) ==
    /\ pc[r] = "await paymentIntents.create"
    /\ results' = [results EXCEPT ![r] = Append(@, result)]
    /\ IF result.ok
       THEN /\ sent' = [sent EXCEPT ![r] = Append(@,
                    IntentSuccessResponse(result.value, LocalCustomer(r, customer)))]
            /\ pc' = [pc EXCEPT ![r] = "done"]
            /\ calls' = calls
       ELSE /\ calls' = [calls EXCEPT ![r] = Append(@, @[Len(@)])]
            /\ UNCHANGED <<sent, pc>>
    /\ UNCHANGED <<endpointSecret, req, customer, log>>

\* Lines 70-102: paymentIntents.create settles.
PaymentIntentsCreateSettles(r, result) ==
    /\ pc[r] = "await paymentIntents.create"
    /\ results' = [results EXCEPT ![r] = Append(@, result)]
    /\ sent' = [sent EXCEPT ![r] = Append(@,
            IF result.ok
            THEN IntentSuccessResponse(result.value, LocalCustomer(r, customer))
            ELSE IntentFailureResponse(result.message))]
    /\ pc' = [pc EXCEPT ![r] = "done"]
    /\ UNCHANGED <<endpointSecret, req, customer, calls, log>>

\* ------------------------------------- GET /subscription-status/:customerEmail
Nullish(v) == v.t \in {"undefined", "null"}

\* Property read `v.k` on an object: undefined when the key is absent.
Get(v, k) == IF k \in DOMAIN v THEN v[k] ELSE Undef

\* Optional chaining `v?.k`
GetOpt(v, k) == IF Nullish(v) THEN Undef ELSE Get(v, k)

CustomersListArgs(email) == [email |-> email, limit |-> 1]

SubscriptionsListArgs(cust) == [customer |-> cust.id, status |-> "active", limit |-> 10]

\* `subscription.items.data[0]?.price?.nickname || 'Premium'`
PlanName(subscription) ==
    LET data == subscription.items.data
        first == IF Len(data) = 0 THEN Undef ELSE data[1]
    IN  Or(GetOpt(GetOpt(first, "price"), "nickname"), Str("Premium"))

CustomerNotFoundResponse ==
    Json(200, [hasSubscription |-> FALSE, message |-> "Customer not found"])

NoActiveSubscriptionResponse ==
    Json(200, [hasSubscription |-> FALSE, message |-> "No active subscriptions found"])

\* Mutant: the last listed subscription is reported instead of the first.
SubscriptionResponseLast(data) ==
    IF Len(data) > 0
    THEN LET subscription == data[Len(data)]
         IN  Json(200, [hasSubscription |-> TRUE,
                        subscription |-> [id |-> subscription.id,
                                          status |-> subscription.status,
                                          currentPeriodEnd |-> subscription.current_period_end,
                                          planName |-> PlanName(subscription)]])
    ELSE NoActiveSubscriptionResponse

\* Lines 132-148: the response for a settled subscriptions.list.
SubscriptionResponse(data) ==
    IF Len(data) > 0
    THEN LET subscription == data[1]
         IN  Json(200, [hasSubscription |-> TRUE,
                        subscription |-> [id |-> subscription.id,
                                          status |-> subscription.status,
                                          currentPeriodEnd |-> subscription.current_period_end,
                                          planName |-> PlanName(subscription)]])
    ELSE NoActiveSubscriptionResponse

StatusFailureResponse(message) ==
    Json(500, [error |-> "Failed to check subscription status", message |-> message])

\* Subscriptions the processor may list: with a plan nickname, with an empty
\* nickname, with a price that has no nickname, and with no items at all.
Item(price) == [t |-> "object", price |-> price]
Price(nickname) == [t |-> "object", nickname |-> nickname]
Subscription(id, end, items) ==
    [id |-> id, status |-> "active", current_period_end |-> end, items |-> [data |-> items]]

Subscriptions ==
    {Subscription("sub_1", 1700000000, <<Item(Price(Str("Gold")))>>),
     Subscription("sub_2", 1710000000, <<Item(Price(JNull)), Item(Price(Str("Silver")))>>),
     Subscription("sub_3", 1720000000, <<Item(Price(Str("")))>>),
     Subscription("sub_4", 1730000000, <<>>)}

RECURSIVE SeqsUpTo(_, _)
SeqsUpTo(S, n) ==
    IF n = 0 THEN {<<>>}
    ELSE LET shorter == SeqsUpTo(S, n - 1)
         IN  shorter \cup {Append(q, x) : q \in shorter, x \in S}

CustomerListResults ==
    {[ok |-> TRUE, data |-> <<>>],
     [ok |-> TRUE, data |-> <<[t |-> "customer", id |-> "cus_1"]>>],
     [ok |-> FALSE, message |-> "customers.list failed"]}

SubscriptionListResults(n) ==
    {[ok |-> TRUE, data |-> d] : d \in SeqsUpTo(Subscriptions, n)}
        \cup {[ok |-> FALSE, message |-> "subscriptions.list failed"]}

\* Lines 106-114: the handler up to `await stripe.customers.list`.
GetSubscriptionStatus(r, email) ==
    /\ pc[r] = "idle"
    /\ req' = [req EXCEPT ![r] =
            [route |-> "GET /subscription-status/:customerEmail", customerEmail |-> email]]
    /\ calls' = [calls EXCEPT ![r] = Append(@, Call("customers.list", CustomersListArgs(email)))]
    /\ pc' = [pc EXCEPT ![r] = "await customers.list"]
    /\ UNCHANGED <<endpointSecret, customer, results, sent, log>>

\* Lines 111-130: customers.list settles.
CustomersListSettles(r, result) ==
    /\ pc[r] = "await customers.list"
    /\ results' = [results EXCEPT ![r] = Append(@, result)]
    /\ IF ~result.ok
       THEN /\ sent' = [sent EXCEPT ![r] = Append(@, StatusFailureResponse(result.message))]
            /\ pc' = [pc EXCEPT ![r] = "done"]
            /\ UNCHANGED <<customer, calls>>
       ELSE IF Len(result.data) = 0
       THEN /\ sent' = [sent EXCEPT ![r] = Append(@, CustomerNotFoundResponse)]
            /\ pc' = [pc EXCEPT ![r] = "done"]
            /\ UNCHANGED <<customer, calls>>
       ELSE /\ customer' = [customer EXCEPT ![r] = result.data[1]]
            /\ calls' = [calls EXCEPT ![r] =
                    Append(@, Call("subscriptions.list", SubscriptionsListArgs(result.data[1])))]
            /\ pc' = [pc EXCEPT ![r] = "await subscriptions.list"]
            /\ sent' = sent
    /\ UNCHANGED <<endpointSecret, req, log>>

\* Lines 126-156: subscriptions.list settles.
SubscriptionsListSettles(r, result) ==
    /\ pc[r] = "await subscriptions.list"
    /\ results' = [results EXCEPT ![r] = Append(@, result)]
    /\ sent' = [sent EXCEPT ![r] = Append(@,
            IF result.ok
            THEN SubscriptionResponse(result.data)
            ELSE StatusFailureResponse(result.message))]
    /\ pc' = [pc EXCEPT ![r] = "done"]
    /\ UNCHANGED <<endpointSecret, req, customer, calls, log>>

\* ------------------------------------------------------------ POST /webhook
\* The stripe-signature header a sender computes over a payload with a secret.
Signature(secret, payload) == [t |-> "signature", secret |-> secret, payload |-> payload]

\* stripe.webhooks.constructEvent(req.body, sig, endpointSecret): returns the
\* parsed payload when the header is the signature of exactly these bytes
\* under the endpoint secret, and throws otherwise.
constructEvent(body, sig, secret) ==
    IF sig.t # "signature"
    THEN [ok |-> FALSE, message |-> "No stripe-signature header value was provided."]
    ELSE IF secret.t = "string" /\ sig.secret = secret.s /\ sig.payload = body
    THEN [ok |-> TRUE, event |-> body]
    ELSE [ok |-> FALSE, message |-> "No signatures found matching the expected signature for payload."]

RecognizedTypes ==
    {"payment_intent.succeeded", "payment_intent.payment_failed",
     "invoice.payment_succeeded", "customer.subscription.deleted"}

IsRecognized(type) == type.t = "string" /\ type.s \in RecognizedTypes

\* Mutant: the default arm reads event.data.object.id like the other arms.
DispatchDefaultReadsObject(event) ==
    IF Nullish(event.data) \/ Nullish(Get(event.data, "object"))
    THEN [threw |-> TRUE]
    ELSE IF IsRecognized(event.type)
    THEN [threw |-> FALSE,
          entry |-> [arm |-> event.type.s, id |-> Get(Get(event.data, "object"), "id")]]
    ELSE [threw |-> FALSE, entry |-> [arm |-> "default", type |-> event.type]]

\* Lines 176-212: the switch. A recognized arm reads event.data.object.id,
\* which throws when event.data or event.data.object is null or undefined.
Dispatch(event) ==
    IF IsRecognized(event.type)
    THEN IF Nullish(event.data) \/ Nullish(Get(event.data, "object"))
         THEN [threw |-> TRUE]
         ELSE [threw |-> FALSE,
               entry |-> [arm |-> event.type.s, id |-> Get(Get(event.data, "object"), "id")]]
    ELSE [threw |-> FALSE, entry |-> [arm |-> "default", type |-> event.type]]

SignatureFailureResponse(message) == Text(400, <<"Webhook Error: ", message>>)

ProcessingFailureResponse == Json(500, [error |-> "Webhook processing failed"])

ReceivedResponse == Json(200, [received |-> TRUE])

\* Mutant: the payload is dispatched although its signature did not verify.
WebhookHandleUnverified(request, secret) ==
    LET d == Dispatch(request.body)
    IN  IF d.threw
        THEN [response |-> ProcessingFailureResponse, log |-> <<>>]
        ELSE [response |-> ReceivedResponse, log |-> <<d.entry>>]

\* Mutant: a failure thrown by the dispatch is answered like a bad signature.
WebhookHandleProcessingAs400(request, secret) ==
    LET verified == constructEvent(request.body, request.sig, secret)
    IN  IF ~verified.ok
        THEN [response |-> SignatureFailureResponse(verified.message), log |-> <<>>]
        ELSE LET d == Dispatch(verified.event)
             IN  IF d.threw
                 THEN [response |-> SignatureFailureResponse("Webhook processing failed"),
                       log |-> <<>>]
                 ELSE [response |-> ReceivedResponse, log |-> <<d.entry>>]

\* Lines 160-220: the whole handler (it never awaits).
WebhookHandle(request, secret) ==
    LET verified == constructEvent(request.body, request.sig, secret)
    IN  IF ~verified.ok
        THEN [response |-> SignatureFailureResponse(verified.message), log |-> <<>>]
        ELSE LET d == Dispatch(verified.event)
             IN  IF d.threw
                 THEN [response |-> ProcessingFailureResponse, log |-> <<>>]
                 ELSE [response |-> ReceivedResponse, log |-> <<d.entry>>]

PostWebhook(r, body, sig) ==
    /\ pc[r] = "idle"
    /\ LET request == [route |-> "POST /webhook", body |-> body, sig |-> sig]
           out == WebhookHandle(request, endpointSecret)
       IN  /\ req' = [req EXCEPT ![r] = request]
           /\ sent' = [sent EXCEPT ![r] = Append(@, out.response)]
           /\ log' = [log EXCEPT ![r] = @ \o out.log]
    /\ pc' = [pc EXCEPT ![r] = "done"]
    /\ UNCHANGED <<endpointSecret, customer, calls, results>>

\* ------------------------------------------------- the remaining HTTP layer
HealthResponse ==
    Json(200, [status |-> "OK", message |-> "French Learning App Payment Backend",
               environment |-> "development"])

TestResponse ==
    Json(200, [message |-> "Backend is working!", stripe |-> "Connected",
               environment |-> "development"])

NotFoundResponse(method, url) ==
    Json(404, [error |-> "Endpoint not found", message |-> <<method, " ", url, " not found">>])

InternalErrorResponse(message) ==
    Json(500, [error |-> "Internal server error", message |-> message])

Respond(r, request, response) ==
    /\ pc[r] = "idle"
    /\ req' = [req EXCEPT ![r] = request]
    /\ sent' = [sent EXCEPT ![r] = Append(@, response)]
    /\ pc' = [pc EXCEPT ![r] = "done"]
    /\ UNCHANGED <<endpointSecret, customer, calls, results, log>>

GetHealth(r) == Respond(r, [route |-> "GET /health"], HealthResponse)

GetTest(r) == Respond(r, [route |-> "GET /test"], TestResponse)

\* Lines 241-246: no route matched.
NotFound(r, method, url) ==
    Respond(r, [route |-> "*", method |-> method, originalUrl |-> url],
            NotFoundResponse(method, url))

\* Lines 232-238: express.json() rejects a body that is not JSON and the
\* error reaches the error-handling middleware.
ErrorMiddleware(r, route) ==
    Respond(r, [route |-> "error middleware", originalUrl |-> route],
            InternalErrorResponse("Unexpected token in JSON"))

\* The response is written and the request is discarded; its slot is free.
Close(r) ==
    /\ pc[r] = "done"
    /\ pc' = [pc EXCEPT ![r] = "idle"]
    /\ req' = [req EXCEPT ![r] = NoReq]
    /\ customer' = [customer EXCEPT ![r] = JNull]
    /\ calls' = [calls EXCEPT ![r] = <<>>]
    /\ results' = [results EXCEPT ![r] = <<>>]
    /\ sent' = [sent EXCEPT ![r] = <<>>]
    /\ log' = [log EXCEPT ![r] = <<>>]
    /\ UNCHANGED endpointSecret

\* ------------------------------------------------------------------ inputs
PlanTypes == {Undef, Str(""), Str("monthly")}
Currencies == {Undef, Str("USD"), Str("usd"), Num(840, 1)}
Amounts == {Undef, Num(0, 1), Num(999, 1), Num(0 - 5, 1), Num(3, 2), Str("abc")}
Emails == {Undef, Str("ana@example.com")}
Names == {Undef, Str("Ana")}

PaymentBodies ==
    [planType : PlanTypes, currency : Currencies, amount : Amounts,
     customerEmail : Emails, customerName : Names]

Object(o) == [t |-> "object", object |-> o]

EventTypes ==
    {Str(s) : s \in RecognizedTypes} \cup {Str("charge.refunded"), Undef}

EventData ==
    {Undef, Object(JNull), [t |-> "object"],
     Object([t |-> "object"]), Object([t |-> "object", id |-> Str("obj_1")])}

Events == [type : EventTypes, data : EventData]

Secrets == {Undef, Str("whsec_1")}

\* Headers a sender may attach to `body`: none, the signature under the
\* endpoint's secret, one under another key, and one of another payload.
SignaturesFor(body) ==
    {Undef, Signature("whsec_1", body), Signature("attacker", body),
     Signature("whsec_1", [type |-> Str("payment_intent.succeeded"),
                           data |-> Object([t |-> "object", id |-> Str("obj_0")])])}

UnroutedRequests == {<<"GET", "/nope">>, <<"PUT", "/health">>}

\* A reduced input set for runs with several requests in flight.
ConcPaymentBodies ==
    {b \in PaymentBodies :
        /\ b.planType = Str("monthly") /\ b.currency = Str("USD")
        /\ b.amount \in {Undef, Num(999, 1)} /\ b.customerName = Undef}

ConcEvents ==
    {e \in Events : /\ e.type \in {Str("payment_intent.succeeded"), Str("charge.refunded")}
                    /\ e.data \in {Undef, Object([t |-> "object", id |-> Str("obj_1")])}}

ConcSignaturesFor(body) == {Undef, Signature("whsec_1", body)}

\* ----------------------------------------------------------- specification
Init ==
    /\ endpointSecret \in Secrets
    /\ pc = [r \in Req |-> "idle"]
    /\ req = [r \in Req |-> NoReq]
    /\ customer = [r \in Req |-> JNull]
    /\ calls = [r \in Req |-> <<>>]
    /\ results = [r \in Req |-> <<>>]
    /\ sent = [r \in Req |-> <<>>]
    /\ log = [r \in Req |-> <<>>]

\* No other request is open.
Alone(r) == \A q \in Req \ {r} : pc[q] = "idle"

\* One request at a time, over the full input sets.
Next ==
    \/ \E r \in Req, body \in PaymentBodies : Alone(r) /\ PostCreatePaymentIntent(r, body)
    \/ \E r \in Req, result \in CustomerResults : CustomersCreateSettles(r, result)
    \/ \E r \in Req, result \in IntentResults : PaymentIntentsCreateSettles(r, result)
    \/ \E r \in Req, email \in {"ana@example.com"} : Alone(r) /\ GetSubscriptionStatus(r, email)
    \/ \E r \in Req, result \in CustomerListResults : CustomersListSettles(r, result)
    \/ \E r \in Req, result \in SubscriptionListResults(MaxSubs) : SubscriptionsListSettles(r, result)
    \/ \E r \in Req, body \in Events : \E sig \in SignaturesFor(body) :
            Alone(r) /\ PostWebhook(r, body, sig)
    \/ \E r \in Req : Alone(r) /\ GetHealth(r)
    \/ \E r \in Req : Alone(r) /\ GetTest(r)
    \/ \E r \in Req, u \in UnroutedRequests : Alone(r) /\ NotFound(r, u[1], u[2])
    \/ \E r \in Req : Alone(r) /\ ErrorMiddleware(r, "/create-payment-intent")
    \/ \E r \in Req : Close(r)

Spec == Init /\ [][Next]_vars

\* Requests arrive and proceed in any interleaving, over the reduced inputs.
NextConc ==
    \/ \E r \in Req, body \in ConcPaymentBodies : PostCreatePaymentIntent(r, body)
    \/ \E r \in Req, result \in CustomerResults : CustomersCreateSettles(r, result)
    \/ \E r \in Req, result \in IntentResults : PaymentIntentsCreateSettles(r, result)
    \/ \E r \in Req, email \in {"ana@example.com"} : GetSubscriptionStatus(r, email)
    \/ \E r \in Req, result \in CustomerListResults : CustomersListSettles(r, result)
    \/ \E r \in Req, result \in SubscriptionListResults(1) : SubscriptionsListSettles(r, result)
    \/ \E r \in Req, body \in ConcEvents : \E sig \in ConcSignaturesFor(body) :
            PostWebhook(r, body, sig)
    \/ \E r \in Req : GetHealth(r)
    \/ \E r \in Req, u \in UnroutedRequests : NotFound(r, u[1], u[2])
    \/ \E r \in Req : Close(r)

SpecConc == Init /\ [][NextConc]_vars

\* Each processor call a request awaits eventually returns or fails.
Settles(r) ==
    \/ \E result \in CustomerResults : CustomersCreateSettles(r, result)
    \/ \E result \in IntentResults : PaymentIntentsCreateSettles(r, result)
    \/ \E result \in CustomerListResults : CustomersListSettles(r, result)
    \/ \E result \in SubscriptionListResults(MaxSubs) : SubscriptionsListSettles(r, result)

FairSpec == Spec /\ \A r \in Req : WF_vars(Settles(r))

\* ------------------------------------------------------------------ claims
IsPaymentRequest(r) == req[r].route = "POST /create-payment-intent"
IsStatusRequest(r) == req[r].route = "GET /subscription-status/:customerEmail"
IsWebhookRequest(r) == req[r].route = "POST /webhook"

Apis(r) == [i \in 1..Len(calls[r]) |-> calls[r][i].api]

RequiredFields == {"planType", "currency", "amount"}

LacksRequiredField(body) == \E f \in RequiredFields : ~Truthy(body[f])

\* C1: a /create-payment-intent request whose body lacks (or has a falsy
\* value for) planType, currency or amount is answered 400 with the
\* missing-required-fields error and issues no processor call, also when
\* customerEmail is present.
C1_MissingFieldsRejected ==
    \A r \in Req :
        (IsPaymentRequest(r) /\ LacksRequiredField(req[r].body)) =>
            /\ pc[r] = "done"
            /\ Len(sent[r]) = 1
            /\ sent[r][1].status = 400
            /\ sent[r][1].kind = "json"
            /\ sent[r][1].body.error = "Missing required fields: planType, currency, amount"
            /\ calls[r] = <<>>

C1_Witness ==
    \E r \in Req :
        /\ IsPaymentRequest(r)
        /\ Truthy(req[r].body.planType) /\ Truthy(req[r].body.currency)
        /\ req[r].body.amount = Num(0, 1)
        /\ Truthy(req[r].body.customerEmail)
        /\ pc[r] = "done" /\ sent[r][1].status = 400

\* C2: a /create-payment-intent request that passes validation and supplies
\* customerEmail, and whose customers.create call failed, has issued
\* paymentIntents.create without a customer id, and once that call succeeded
\* the response is the success response with customerId null.
C2_IntentCreatedDespiteCustomerFailure ==
    \A r \in Req :
        (/\ IsPaymentRequest(r)
         /\ ~LacksRequiredField(req[r].body)
         /\ Truthy(req[r].body.customerEmail)
         /\ Len(results[r]) >= 1
         /\ ~results[r][1].ok) =>
            /\ Apis(r) = <<"customers.create", "paymentIntents.create">>
            /\ calls[r][2].args.customer = Undef
            /\ (Len(results[r]) = 2 /\ results[r][2].ok) =>
                    /\ Len(sent[r]) = 1
                    /\ sent[r][1].status = 200
                    /\ sent[r][1].body.customerId = JNull

C2_Witness ==
    \E r \in Req :
        /\ IsPaymentRequest(r)
        /\ req[r].body.currency = Num(840, 1)
        /\ Len(results[r]) = 1 /\ ~results[r][1].ok
        /\ pc[r] = "done" /\ sent[r][1].status = 500

Verifies(r) == constructEvent(req[r].body, req[r].sig, endpointSecret).ok

\* C3: a /webhook request whose signature verification fails (a missing
\* header included) is answered 400, runs no dispatch arm (the default arm
\* included) and is never acknowledged with {received: true}.
C3_BadSignatureRejected ==
    \A r \in Req :
        (IsWebhookRequest(r) /\ ~Verifies(r)) =>
            /\ pc[r] = "done"
            /\ Len(sent[r]) = 1
            /\ sent[r][1].status = 400
            /\ sent[r][1] # ReceivedResponse
            /\ log[r] = <<>>

C3_Witness ==
    \E r \in Req :
        /\ IsWebhookRequest(r)
        /\ endpointSecret = Str("whsec_1")
        /\ req[r].sig = Signature("attacker", req[r].body)
        /\ IsRecognized(req[r].body.type)
        /\ req[r].body.data = Object([t |-> "object", id |-> Str("obj_1")])
        /\ pc[r] = "done" /\ sent[r][1].status = 400

\* C4: a /webhook request whose signature verifies and whose event type is
\* none of the four recognized tags is acknowledged with {received: true},
\* never with an error status, whatever its data payload is.
C4_UnrecognizedTypeAcknowledged ==
    \A r \in Req :
        (/\ IsWebhookRequest(r)
         /\ Verifies(r)
         /\ ~(req[r].body.type.t = "string" /\ req[r].body.type.s \in RecognizedTypes)) =>
            /\ pc[r] = "done"
            /\ sent[r] = <<Json(200, [received |-> TRUE])>>

C4_Witness ==
    \E r \in Req :
        /\ IsWebhookRequest(r)
        /\ Verifies(r)
        /\ req[r].body.type = Str("charge.refunded")
        /\ req[r].body.data = Undef
        /\ sent[r] = <<ReceivedResponse>>
        /\ log[r] = <<[arm |-> "default", type |-> Str("charge.refunded")]>>

\* A recognized event whose data or data.object is null or undefined.
MalformedRecognizedEvent(event) ==
    /\ event.type.t = "string" /\ event.type.s \in RecognizedTypes
    /\ \/ event.data.t \in {"undefined", "null"}
       \/ "object" \notin DOMAIN event.data
       \/ event.data.object.t \in {"undefined", "null"}

\* C5: on /webhook a signature failure is answered with a 4xx status and a
\* failure thrown while dispatching a verified event with a 5xx status; a
\* dispatch failure is never answered 400 nor acknowledged.
C5_FailureClassesDistinct ==
    \A r \in Req :
        (IsWebhookRequest(r) /\ pc[r] = "done") =>
            /\ Len(sent[r]) = 1
            /\ ~Verifies(r) => sent[r][1].status \in 400..499
            /\ (Verifies(r) /\ MalformedRecognizedEvent(req[r].body)) =>
                    /\ sent[r][1].status \in 500..599
                    /\ sent[r][1] # ReceivedResponse
                    /\ log[r] = <<>>

C5_Witness ==
    \E r \in Req :
        /\ IsWebhookRequest(r)
        /\ Verifies(r)
        /\ req[r].body.type = Str("invoice.payment_succeeded")
        /\ req[r].body.data = Object(JNull)
        /\ pc[r] = "done" /\ sent[r][1].status = 500

\* C6: every failure response of every route is a JSON body that carries
\* both an `error` tag and a `message` field.
C6_FailuresCarryErrorAndMessage ==
    \A r \in Req :
        \A i \in 1..Len(sent[r]) :
            sent[r][i].status >= 400 =>
                /\ sent[r][i].kind = "json"
                /\ {"error", "message"} \subseteq DOMAIN sent[r][i].body

C6_Witness ==
    \E r \in Req :
        /\ IsPaymentRequest(r)
        /\ sent[r] = <<ValidationResponse>>

IsPositiveInteger(v) == v.t = "number" /\ v.d = 1 /\ v.n > 0

NonEmptyValue(v) == v.t \notin {"undefined", "null"} /\ (v.t = "string" => v.s # "")

\* C7: every paymentIntents.create call forwarded to the processor comes
\* from a request whose planType, currency and amount are present and
\* non-empty and whose amount is a positive integer count of minor units.
C7_ForwardedAmountPositiveInteger ==
    \A r \in Req :
        \A i \in 1..Len(calls[r]) :
            calls[r][i].api = "paymentIntents.create" =>
                /\ \A f \in RequiredFields : NonEmptyValue(req[r].body[f])
                /\ IsPositiveInteger(req[r].body.amount)
                /\ IsPositiveInteger(calls[r][i].args.amount)

C7_Witness ==
    \E r \in Req :
        /\ IsPaymentRequest(r)
        /\ req[r].body.amount = Num(0 - 5, 1)
        /\ Len(calls[r]) > 0
        /\ calls[r][Len(calls[r])].api = "paymentIntents.create"
        /\ calls[r][Len(calls[r])].args.amount = Num(0 - 5, 1)

AllOk(r) == \A i \in 1..Len(results[r]) : results[r][i].ok

CustomerFound(r) == Len(results[r]) >= 1 /\ Len(results[r][1].data) > 0

\* C8: a /subscription-status request whose processor calls did not fail:
\* with no matching customer the response is exactly {hasSubscription: false,
\* message: "Customer not found"} and subscriptions.list is never called;
\* with a customer and an empty active list it is exactly {hasSubscription:
\* false, message: "No active subscriptions found"}; hasSubscription is true
\* exactly when a customer is found and the list is non-empty, and then the
\* first listed subscription is the one reported.
C8_SubscriptionStatusShape ==
    \A r \in Req :
        (IsStatusRequest(r) /\ AllOk(r)) =>
            /\ (Len(results[r]) = 1 /\ ~CustomerFound(r)) =>
                    /\ pc[r] = "done"
                    /\ sent[r] = <<Json(200, [hasSubscription |-> FALSE,
                                              message |-> "Customer not found"])>>
            /\ ~CustomerFound(r) => Apis(r) = <<"customers.list">>
            /\ (Len(results[r]) = 2 /\ Len(results[r][2].data) = 0) =>
                    sent[r] = <<Json(200, [hasSubscription |-> FALSE,
                                           message |-> "No active subscriptions found"])>>
            /\ pc[r] = "done" =>
                    /\ Len(sent[r]) = 1
                    /\ sent[r][1].body.hasSubscription
                            <=> (Len(results[r]) = 2 /\ Len(results[r][2].data) > 0)
                    /\ sent[r][1].body.hasSubscription =>
                            LET first == results[r][2].data[1]
                                reported == sent[r][1].body.subscription
                            IN  /\ DOMAIN sent[r][1].body = {"hasSubscription", "subscription"}
                                /\ reported.id = first.id
                                /\ reported.status = first.status
                                /\ reported.currentPeriodEnd = first.current_period_end

C8_Witness ==
    \E r \in Req :
        /\ IsStatusRequest(r)
        /\ pc[r] = "done"
        /\ Len(results[r]) = 2 /\ AllOk(r)
        /\ Len(results[r][2].data) = 2
        /\ results[r][2].data[1].id # results[r][2].data[2].id
        /\ sent[r][1].body.hasSubscription

\* C9: requests are handled independently under any interleaving: what a
\* request has done so far (its position, the processor calls it issued, its
\* response, its dispatch log) is determined by its own input and by the
\* processor's results for its own calls; two requests that agree on those
\* agree on all of it, whatever else is in flight.
C9_RequestsIndependent ==
    \A a, b \in Req :
        (req[a] = req[b] /\ results[a] = results[b]) =>
            /\ pc[a] = pc[b]
            /\ calls[a] = calls[b]
            /\ sent[a] = sent[b]
            /\ log[a] = log[b]

C9_Witness ==
    \E a, b \in Req :
        /\ a # b
        /\ IsPaymentRequest(a) /\ req[a] = req[b]
        /\ Truthy(req[a].body.customerEmail)
        /\ results[a] = results[b]
        /\ Len(results[a]) = 1 /\ ~results[a][1].ok
        /\ pc[a] = "await paymentIntents.create"

GenericIntentFailure(response, message) ==
    /\ response.status = 500
    /\ response.kind = "json"
    /\ response.body.error = "Payment intent creation failed"
    /\ response.body.message = message

\* What a /create-payment-intent request may have done at any moment.
PaymentRequestOrderly(r) ==
    /\ Apis(r) \in {<<>>, <<"customers.create">>, <<"paymentIntents.create">>,
                    <<"customers.create", "paymentIntents.create">>}
    /\ Len(sent[r]) <= 1
    /\ pc[r] = "done" <=> Len(sent[r]) = 1
    /\ Len(results[r]) <= Len(calls[r])
    /\ (/\ Len(calls[r]) > 0
        /\ Len(results[r]) = Len(calls[r])
        /\ calls[r][Len(calls[r])].api = "paymentIntents.create"
        /\ ~results[r][Len(results[r])].ok) =>
            /\ pc[r] = "done"
            /\ GenericIntentFailure(sent[r][1], results[r][Len(results[r])].message)

\* C10: every /create-payment-intent request, its processor calls settling,
\* eventually receives exactly one response, after at most one
\* customers.create followed by at most one paymentIntents.create; a failed
\* paymentIntents.create ends it with the 500 response carrying the generic
\* error and the underlying message, with no retry and no further call.
C10_PaymentRequestTerminates ==
    /\ [](\A r \in Req : IsPaymentRequest(r) => PaymentRequestOrderly(r))
    /\ \A r \in Req : (IsPaymentRequest(r) /\ pc[r] # "done") ~> (pc[r] = "done")

C10_Witness ==
    \E r \in Req :
        /\ IsPaymentRequest(r)
        /\ Apis(r) = <<"customers.create", "paymentIntents.create">>
        /\ Len(results[r]) = 2 /\ ~results[r][2].ok
        /\ pc[r] = "done" /\ sent[r][1].status = 500

====
